---- MODULE Spec2Model ----
(***************************************************************************)
(* A model of the GMeet Attendance content script (src/content.js): the    *)
(* candidate extractor (processNode / parseCandidateNode), the attendance  *)
(* ledger (window.gmeetState and recordAttendance) and the command surface *)
(* (the chrome.runtime.onMessage listener); and of the popup that drives   *)
(* it (src/popup.js): sendMessage with its page test, injection and retry, *)
(* refreshUI and the button handlers.                                      *)
(*                                                                         *)
(* Text is a sequence of one-character strings, so that the regular        *)
(* expression, replace, trim, includes and toLowerCase are computed        *)
(* character by character as the JavaScript does.                          *)
(***************************************************************************)
EXTENDS Integers, Sequences, FiniteSets, TLC

VARIABLES
    attendanceMap,   \* state.attendanceMap: entries in insertion order
    isRunning,       \* state.isRunning
    observer,        \* state.observer: "null", "observing" or "disconnected"
    startTimestamp,  \* state.startTimestamp: <<>> (null) or <<t>>
    meetingName,     \* state.meetingName
    now,             \* the wall clock read by new Date() / Date.now(), in minutes
    request,         \* the message or mutation batch handled last
    response,        \* the value passed to sendResponse last
    before,          \* the ledger and the clock at entry of the handler that ran last
    loaded,          \* content.js has run in the tab: window.gmeetState exists
    tab,             \* the active tab the popup finds: "meet", "other" or "none"
    ui,              \* the popup's document: status badge, buttons, count, name input
    call             \* the popup handler in progress or finished last, and its sendMessage

vars == <<attendanceMap, isRunning, observer, startTimestamp, meetingName,
          now, request, response, before, loaded, tab, ui, call>>

\* What the content script's own handlers leave alone.
popupVars == <<loaded, tab, ui, call>>

\* ---------------------------------------------------------------- bounds

\* The clock starts at StartClock minutes after 01/01/2026 00:00 and advances
\* ClockStep minutes at a time, at most MaxTicks times.
StartClock == 9180
ClockStep == 420
MaxTicks == 1
\* The longest free text over Alphabet handed to the extractor.
MaxTextLen == 6
\* The longest generated name.
MaxNameLen == 3
MaxSepLen == 2
\* The export specification lets the clock take MaxExportTicks steps, enough
\* for every hour of the day to come up.
MaxExportTicks == 24

\* ------------------------------------------------------------ characters

Lower == {"a","b","c","d","e","f","g","h","i","j","k","l","m",
          "n","o","p","q","r","s","t","u","v","w","x","y","z"}
Upper == {"A","B","C","D","E","F","G","H","I","J","K","L","M",
          "N","O","P","Q","R","S","T","U","V","W","X","Y","Z"}
Digits == {"0","1","2","3","4","5","6","7","8","9"}
UpperSeq == <<"A","B","C","D","E","F","G","H","I","J","K","L","M",
              "N","O","P","Q","R","S","T","U","V","W","X","Y","Z">>
LowerSeq == <<"a","b","c","d","e","f","g","h","i","j","k","l","m",
              "n","o","p","q","r","s","t","u","v","w","x","y","z">>
DigitSeq == <<"0","1","2","3","4","5","6","7","8","9">>

\* The character classes of EMAIL_REGEX.
Letters == Lower \cup Upper
LocalChars == Letters \cup Digits \cup {".", "_", "%", "+", "-"}
DomainChars == Letters \cup Digits \cup {".", "-"}
\* The class [-:;,|] of the separator cleanup.
Separators == {"-", ":", ";", ",", "|"}
\* What String.prototype.trim removes (of the characters the model uses).
WhiteSpace == {" ", "\t", "\n"}
\* The class [a-zA-Z0-9-_ ] kept in a file name.
FileNameChars == Letters \cup Digits \cup {"-", "_", " "}

\* ------------------------------------------------------- string built-ins

LowerChar(c) ==
    IF c \in Upper THEN LowerSeq[CHOOSE i \in 1..26 : UpperSeq[i] = c] ELSE c

\* String.prototype.toLowerCase
ToLowerCase(text) == [i \in 1..Len(text) |-> LowerChar(text[i])]

\* String.prototype.indexOf, 1-based; 0 when pat does not occur in text.
IndexOf(text, pat) ==
    LET hits == {i \in 1..(Len(text) - Len(pat) + 1) :
                    SubSeq(text, i, i + Len(pat) - 1) = pat}
    IN IF hits = {} THEN 0 ELSE CHOOSE i \in hits : \A j \in hits : i <= j

\* String.prototype.includes
Includes(text, pat) == IndexOf(text, pat) # 0

\* String.prototype.replace(pat, "") with a string pattern: the first
\* occurrence of pat is removed.
RemoveFirst(text, pat) ==
    LET i == IndexOf(text, pat)
    IN IF i = 0 THEN text
       ELSE SubSeq(text, 1, i - 1) \o SubSeq(text, i + Len(pat), Len(text))

\* String.prototype.trim
Trim(text) ==
    LET keep == {i \in 1..Len(text) : text[i] \notin WhiteSpace}
    IN IF keep = {} THEN <<>>
       ELSE SubSeq(text, CHOOSE i \in keep : \A j \in keep : i <= j,
                         CHOOSE i \in keep : \A j \in keep : i >= j)

\* replace(/^[-:;,|]+|[-:;,|]+$/g, ""): the leading run and the trailing run
\* of separators are removed.
StripSeparators(text) ==
    LET keep == {i \in 1..Len(text) : text[i] \notin Separators}
    IN IF keep = {} THEN <<>>
       ELSE SubSeq(text, CHOOSE i \in keep : \A j \in keep : i <= j,
                         CHOOSE i \in keep : \A j \in keep : i >= j)

\* email.split('@')[0]
LocalPart(email) ==
    LET i == IndexOf(email, <<"@">>)
    IN IF i = 0 THEN email ELSE SubSeq(email, 1, i - 1)

\* ------------------------------------------------------------ EMAIL_REGEX

\* The shortest top-level domain \.[a-zA-Z]{2,} accepts.
MinTldLen == 2

\* The last index e >= from - 1 such that text[from..e] lies in class.
RunEnd(text, from, class) ==
    LET stops == {p \in from..Len(text) : text[p] \notin class}
    IN IF stops = {} THEN Len(text)
       ELSE (CHOOSE p \in stops : \A q \in stops : p <= q) - 1

\* A match of /([a-zA-Z0-9._%+-]+@[a-zA-Z0-9.-]+\.[a-zA-Z]{2,})/ that starts
\* at i: <<>> when there is none, else <<i, e>> with e its last index.  The
\* greedy local part runs to the "@"; the greedy domain backtracks to the
\* last "." that at least tldLen letters follow; the greedy top-level domain
\* takes every letter that follows.
MatchAt(text, i, tldLen) ==
    LET k == RunEnd(text, i, LocalChars) + 1
        r == RunEnd(text, k + 1, DomainChars)
        dots == {j \in (k + 2)..r :
                    /\ text[j] = "."
                    /\ j + tldLen <= Len(text)
                    /\ \A p \in (j + 1)..(j + tldLen) : text[p] \in Letters}
    IN IF k = i \/ k > Len(text) \/ text[k] # "@" \/ dots = {} THEN <<>>
       ELSE LET j == CHOOSE d \in dots : \A d2 \in dots : d >= d2
            IN <<i, RunEnd(text, j + 1, Letters)>>

RegexMatchWith(text, tldLen) ==
    LET starts == {i \in 1..Len(text) : MatchAt(text, i, tldLen) # <<>>}
    IN IF starts = {} THEN <<>>
       ELSE MatchAt(text, CHOOSE i \in starts : \A j \in starts : i <= j, tldLen)

RegexMatchShortTld(text) == RegexMatchWith(text, 1)

\* text.match(EMAIL_REGEX): the leftmost match, <<>> (null) when none.
RegexMatch(text) == RegexMatchWith(text, MinTldLen)

\* EMAIL_REGEX.test(text)
RegexTest(text) == RegexMatch(text) # <<>>

\* ------------------------------------------------------ date and time text

\* String(n) for n >= 0
RECURSIVE NumStr(_)
NumStr(n) == IF n < 10 THEN <<DigitSeq[n + 1]>>
             ELSE NumStr(n \div 10) \o <<DigitSeq[(n % 10) + 1]>>

\* String(n).padStart(2, '0')
Pad2(n) == IF n < 10 THEN <<"0">> \o NumStr(n) ELSE NumStr(n)

\* The clock counts minutes from 01/01/2026 00:00 local time; the model's
\* clock stays within the year.
DaysInMonth == <<31, 28, 31, 30, 31, 30, 31, 31, 30, 31, 30, 31>>

RECURSIVE MonthDay(_, _)
MonthDay(d, m) ==
    IF m < 12 /\ d >= DaysInMonth[m] THEN MonthDay(d - DaysInMonth[m], m + 1)
    ELSE [month |-> m, day |-> d + 1]

GetDate(t) == MonthDay((t \div 1440) % 365, 1).day
GetMonth(t) == MonthDay((t \div 1440) % 365, 1).month - 1
GetFullYear(t) == 2026 + (t \div 1440) \div 365
GetHours(t) == (t % 1440) \div 60
GetMinutes(t) == t % 60

\* hours % 12 || 12
\* hours % 12 without its "|| 12".
Hour12Zero(h) == h % 12
Hour12(h) == IF h % 12 = 0 THEN 12 ELSE h % 12
AmPm(h) == IF h >= 12 THEN <<"P", "M">> ELSE <<"A", "M">>

\* `${day}/${month}/${year}` of recordAttendance
DateStr(t) ==
    Pad2(GetDate(t)) \o <<"/">> \o Pad2(GetMonth(t) + 1) \o <<"/">>
        \o NumStr(GetFullYear(t))

\* now.toLocaleTimeString([], {hour: '2-digit', minute: '2-digit', hour12: true})
TimeStr(t) ==
    Pad2(Hour12(GetHours(t))) \o <<":">> \o Pad2(GetMinutes(t)) \o <<" ">>
        \o AmPm(GetHours(t))

\* -------------------------------------------------------------- the ledger

\* Map.prototype.set: the value of an existing key is replaced in place, a
\* new key is appended (a Map iterates in insertion order).
MapSetAppend(map, key, value) == Append(map, [key |-> key, value |-> value])

MapSet(map, key, value) ==
    IF \E i \in DOMAIN map : map[i].key = key
    THEN [i \in DOMAIN map |->
            IF map[i].key = key THEN [key |-> key, value |-> value] ELSE map[i]]
    ELSE Append(map, [key |-> key, value |-> value])

\* recordAttendance(name, email) at clock t
RecordAttendance(map, name, email, t) ==
    MapSet(map, email, [name |-> name, email |-> email, time |-> TimeStr(t),
                        date |-> DateStr(t), timestamp |-> t])

\* ----------------------------------------------------------- the extractor

\* The number of ancestors the widening walk may visit.
MaxAncestors == 3

\* The loop without its break at a name of more than two characters.
RECURSIVE WidenNoBreak(_, _, _, _, _)
WidenNoBreak(nameRaw, ancestors, i, email, matched) ==
    IF i >= MaxAncestors \/ i >= Len(ancestors) THEN nameRaw
    ELSE LET parentText == ancestors[i + 1]
             potentialName == Trim(RemoveFirst(parentText, matched))
         IN IF /\ Includes(parentText, email)
               /\ Len(potentialName) > Len(nameRaw)
            THEN WidenNoBreak(potentialName, ancestors, i + 1, email, matched)
            ELSE WidenNoBreak(nameRaw, ancestors, i + 1, email, matched)

\* The loop of parseCandidateNode over node.parentElement, from the i-th
\* ancestor (0-based) on: the name it leaves in nameRaw.
RECURSIVE Widen(_, _, _, _, _)
Widen(nameRaw, ancestors, i, email, matched) ==
    IF i >= MaxAncestors \/ i >= Len(ancestors) THEN nameRaw
    ELSE LET parentText == ancestors[i + 1]
             potentialName == Trim(RemoveFirst(parentText, matched))
         IN IF /\ Includes(parentText, email)
               /\ Len(potentialName) > Len(nameRaw)
            THEN IF Len(potentialName) > 2 THEN potentialName
                 ELSE Widen(potentialName, ancestors, i + 1, email, matched)
            ELSE Widen(nameRaw, ancestors, i + 1, email, matched)

ExtractCandidateKeepCase(node) ==
    LET text == node.innerText
        m == RegexMatch(text)
    IN IF m = <<>> THEN <<>>
       ELSE LET matched == SubSeq(text, m[1], m[2])
                email == matched
                leaf == Trim(RemoveFirst(text, matched))
                nameRaw == IF Len(leaf) < 2
                           THEN Widen(leaf, node.ancestors, 0, email, matched)
                           ELSE leaf
                clean == Trim(StripSeparators(nameRaw))
            IN <<[name |-> IF clean = <<>> THEN LocalPart(email) ELSE clean,
                  email |-> email]>>

\* parseCandidateNode that widens a leaf name of fewer than 3 characters.
ExtractCandidateWiden3(node) ==
    LET text == node.innerText
        m == RegexMatch(text)
    IN IF m = <<>> THEN <<>>
       ELSE LET matched == SubSeq(text, m[1], m[2])
                email == ToLowerCase(matched)
                leaf == Trim(RemoveFirst(text, matched))
                nameRaw == IF Len(leaf) < 3
                           THEN Widen(leaf, node.ancestors, 0, email, matched)
                           ELSE leaf
                clean == Trim(StripSeparators(nameRaw))
            IN <<[name |-> IF clean = <<>> THEN LocalPart(email) ELSE clean,
                  email |-> email]>>

\* parseCandidateNode without its fallback to the e-mail prefix.
ExtractCandidateNoFallback(node) ==
    LET text == node.innerText
        m == RegexMatch(text)
    IN IF m = <<>> THEN <<>>
       ELSE LET matched == SubSeq(text, m[1], m[2])
                email == ToLowerCase(matched)
                leaf == Trim(RemoveFirst(text, matched))
                nameRaw == IF Len(leaf) < 2
                           THEN Widen(leaf, node.ancestors, 0, email, matched)
                           ELSE leaf
                clean == Trim(StripSeparators(nameRaw))
            IN <<[name |-> clean, email |-> email]>>

\* parseCandidateNode up to its call of recordAttendance: <<>> when the text
\* holds no e-mail, else <<[name, email]>>.
ExtractCandidate(node) ==
    LET text == node.innerText
        m == RegexMatch(text)
    IN IF m = <<>> THEN <<>>
       ELSE LET matched == SubSeq(text, m[1], m[2])
                email == ToLowerCase(matched)
                leaf == Trim(RemoveFirst(text, matched))
                nameRaw == IF Len(leaf) < 2
                           THEN Widen(leaf, node.ancestors, 0, email, matched)
                           ELSE leaf
                clean == Trim(StripSeparators(nameRaw))
            IN <<[name |-> IF clean = <<>> THEN LocalPart(email) ELSE clean,
                  email |-> email]>>

\* parseCandidateNode(node) at clock t
ParseCandidateNode(map, node, t) ==
    LET c == ExtractCandidate(node)
    IN IF c = <<>> THEN map
       ELSE RecordAttendance(map, c[1].name, c[1].email, t)

\* processNode(node) at clock t
ProcessNode(map, node, t) ==
    IF node.innerText = <<>> THEN map
    ELSE IF RegexTest(node.innerText) THEN ParseCandidateNode(map, node, t)
    ELSE map

\* The loops of handleMutations over the added nodes of a batch, in order.
RECURSIVE ProcessAdded(_, _, _)
ProcessAdded(map, nodes, t) ==
    IF nodes = <<>> THEN map
    ELSE ProcessAdded(IF Head(nodes).nodeType = "ELEMENT"
                      THEN ProcessNode(map, Head(nodes), t)
                      ELSE map,
                      Tail(nodes), t)

\* ------------------------------------------------------- control functions

\* The ledger and the clock, as a handler finds them.
Ledger == [attendanceMap |-> attendanceMap, isRunning |-> isRunning,
           observer |-> observer, startTimestamp |-> startTimestamp,
           meetingName |-> meetingName, now |-> now]

\* !!state.startTimestamp
Truthy(ts) == ts # <<>> /\ ts[1] # 0

StatusOf(map, running, name, ts) ==
    [isRunning |-> running, count |-> Len(map), meetingName |-> name,
     sessionStarted |-> Truthy(ts)]

\* getStatus(), called when the handler has made its assignments.
GetStatus == StatusOf(attendanceMap', isRunning', meetingName', startTimestamp')

\* observer.disconnect(), when there is an observer
Disconnected == IF observer = "null" THEN "null" ELSE "disconnected"

\* startAttendance without its early return.
StartAttendanceRename(name) ==
    /\ meetingName' = IF name # <<>> THEN name ELSE meetingName
    /\ isRunning' = TRUE
    /\ startTimestamp' = IF Truthy(startTimestamp) THEN startTimestamp
                         ELSE <<now>>
    /\ observer' = "observing"
    /\ UNCHANGED attendanceMap
    /\ response' = GetStatus

\* startAttendance stamping the session at every start.
StartAttendanceRestamp(name) ==
    IF isRunning
    THEN /\ UNCHANGED <<attendanceMap, isRunning, observer, startTimestamp,
                        meetingName>>
         /\ response' = GetStatus
    ELSE /\ meetingName' = IF name # <<>> THEN name ELSE meetingName
         /\ isRunning' = TRUE
         /\ startTimestamp' = <<now>>
         /\ observer' = "observing"
         /\ UNCHANGED attendanceMap
         /\ response' = GetStatus

\* startAttendance beginning every run with an empty map.
StartAttendanceFresh(name) ==
    IF isRunning
    THEN /\ UNCHANGED <<attendanceMap, isRunning, observer, startTimestamp,
                        meetingName>>
         /\ response' = GetStatus
    ELSE /\ meetingName' = IF name # <<>> THEN name ELSE meetingName
         /\ isRunning' = TRUE
         /\ startTimestamp' = IF Truthy(startTimestamp) THEN startTimestamp
                              ELSE <<now>>
         /\ observer' = "observing"
         /\ attendanceMap' = <<>>
         /\ response' = GetStatus

\* startAttendance that does not set the start time.
StartAttendanceUnstamped(name) ==
    IF isRunning
    THEN /\ UNCHANGED <<attendanceMap, isRunning, observer, startTimestamp,
                        meetingName>>
         /\ response' = GetStatus
    ELSE /\ meetingName' = IF name # <<>> THEN name ELSE meetingName
         /\ isRunning' = TRUE
         /\ observer' = "observing"
         /\ UNCHANGED <<attendanceMap, startTimestamp>>
         /\ response' = GetStatus

\* startAttendance(name)
StartAttendance(name) ==
    IF isRunning
    THEN /\ UNCHANGED <<attendanceMap, isRunning, observer, startTimestamp,
                        meetingName>>
         /\ response' = GetStatus
    ELSE /\ meetingName' = IF name # <<>> THEN name ELSE meetingName
         /\ isRunning' = TRUE
         /\ startTimestamp' = IF Truthy(startTimestamp) THEN startTimestamp
                              ELSE <<now>>
         /\ observer' = "observing"
         /\ UNCHANGED attendanceMap
         /\ response' = GetStatus

\* stopAttendance()
StopAttendance ==
    /\ isRunning' = FALSE
    /\ observer' = Disconnected
    /\ UNCHANGED <<attendanceMap, startTimestamp, meetingName>>
    /\ response' = GetStatus

\* restartAttendance leaving the meeting name in place.
RestartAttendanceKeepName ==
    /\ isRunning' = FALSE
    /\ observer' = Disconnected
    /\ attendanceMap' = <<>>
    /\ UNCHANGED meetingName
    /\ startTimestamp' = <<>>
    /\ response' = GetStatus

\* restartAttendance(): stopAttendance(), then the three clears.
RestartAttendance ==
    /\ isRunning' = FALSE
    /\ observer' = Disconnected
    /\ attendanceMap' = <<>>
    /\ meetingName' = <<>>
    /\ startTimestamp' = <<>>
    /\ response' = GetStatus

\* ---------------------------------------------------------------- the CSV

\* r.name.replace(/"/g, '""')
RECURSIVE DoubleQuotes(_)
DoubleQuotes(text) ==
    IF text = <<>> THEN <<>>
    ELSE (IF Head(text) = "\"" THEN <<"\"", "\"">> ELSE <<Head(text)>>)
         \o DoubleQuotes(Tail(text))

Quoted(text) == <<"\"">> \o text \o <<"\"">>

\* The row with the name quoted but its own double quotes left single.
CsvRowUnescaped(r) ==
    Quoted(r.name) \o <<",">> \o Quoted(r.email) \o <<",">>
        \o r.time \o <<",">> \o r.date

\* [safeName, safeEmail, r.time, r.date].join(",")
CsvRow(r) ==
    Quoted(DoubleQuotes(r.name)) \o <<",">> \o Quoted(r.email) \o <<",">>
        \o r.time \o <<",">> \o r.date

CsvHeader == <<"N","a","m","e",",","E","m","a","i","l",",",
               "T","i","m","e",",","D","a","t","e">>

\* The header and the rows joined by "\n", rows in the map's iteration order.
RECURSIVE CsvRows(_)
CsvRows(map) ==
    IF map = <<>> THEN <<>>
    ELSE <<"\n">> \o CsvRow(Head(map).value) \o CsvRows(Tail(map))

CsvContent(map) == CsvHeader \o CsvRows(map)

\* meetingName.replace(/[^a-zA-Z0-9-_ ]/g, "_")
Sanitize(text) ==
    [i \in 1..Len(text) |-> IF text[i] \in FileNameChars THEN text[i] ELSE "_"]

\* The file name generateCSV builds at clock t.
FileName(name, t) ==
    (IF name # <<>> THEN Sanitize(name) \o <<"_">> ELSE <<>>)
        \o Pad2(GetDate(t)) \o <<"-">> \o Pad2(GetMonth(t) + 1) \o <<"-">>
        \o NumStr(GetFullYear(t)) \o <<"_">>
        \o Pad2(Hour12(GetHours(t))) \o <<"-">> \o Pad2(GetMinutes(t))
        \o <<"-">> \o AmPm(GetHours(t)) \o <<".", "c", "s", "v">>

\* generateCSV storing the name it was given.
GenerateCSVRename(providedName) ==
    /\ UNCHANGED <<attendanceMap, isRunning, observer, startTimestamp>>
    /\ meetingName' = IF providedName # <<>> THEN providedName ELSE meetingName
    /\ response' =
          [csvContent |-> CsvContent(attendanceMap),
           filename |-> FileName(meetingName', now),
           isRunning |-> isRunning, count |-> Len(attendanceMap),
           meetingName |-> meetingName',
           sessionStarted |-> Truthy(startTimestamp)]

\* generateCSV(providedName)
GenerateCSV(providedName) ==
    /\ UNCHANGED <<attendanceMap, isRunning, observer, startTimestamp,
                   meetingName>>
    /\ response' =
          [csvContent |-> CsvContent(attendanceMap),
           filename |-> FileName(IF providedName # <<>> THEN providedName
                                 ELSE meetingName, now),
           isRunning |-> isRunning, count |-> Len(attendanceMap),
           meetingName |-> meetingName,
           sessionStarted |-> Truthy(startTimestamp)]

\* -------------------------------------------------------------- the inputs

MeetingNames == {<<>>, <<"M">>, <<"Q", "&", "A">>}

\* The messages the listener may receive; "PING" stands for every verb the
\* switch does not name.
Requests ==
    {[action |-> "START", meetingName |-> n] : n \in MeetingNames}
    \cup {[action |-> "EXPORT", meetingName |-> n] : n \in {<<>>, <<"Q", "&", "A">>}}
    \cup {[action |-> a, meetingName |-> <<>>] :
        a \in {"STOP", "RESTART", "GET_STATUS", "PING"}}

Element(text, ancestors) ==
    [nodeType |-> "ELEMENT", innerText |-> text, ancestors |-> ancestors]

EmailA == <<"a", "@", "b", ".", "c", "c">>
EmailAUpper == <<"A", "@", "b", ".", "c", "c">>
EmailZ == <<"z", "@", "b", ".", "c", "c">>
NameAl == <<"A", "l">>
NameBo == <<"B", "o">>

NodeAl == Element(NameAl \o <<" ">> \o EmailA, <<>>)
NodeBo == Element(NameBo \o <<" ">> \o EmailAUpper, <<>>)
NodeSplit == Element(EmailZ, <<NameBo \o <<":", " ">> \o EmailZ>>)
NodeChat == Element(<<"h", "i">>, <<NameAl \o <<" ">> \o EmailA>>)
NodeText == [nodeType |-> "TEXT", innerText |-> NameBo \o <<" ">> \o EmailZ,
             ancestors |-> <<>>]

Nodes == {NodeAl, NodeBo, NodeSplit, NodeChat, NodeText}

\* The batches of added nodes a mutation callback may carry.
Batches == {<<n>> : n \in Nodes} \cup {<<NodeAl, NodeBo>>}

\* ------------------------------------------------------ the popup document

\* The document of the popup as it is loaded. popup.html sets the first
\* look of the buttons; until refreshUI has drawn them once (rendered) every
\* button counts as one the user can click.
InitialUI ==
    [rendered |-> FALSE, status |-> "", statusActive |-> FALSE,
     startShown |-> TRUE, startDisabled |-> FALSE, resumeShown |-> FALSE,
     stopDisabled |-> FALSE, nameDisabled |-> FALSE, count |-> 0,
     nameInput |-> <<>>]

\* No popup handler has run yet.
NoCall ==
    [handler |-> "none", action |-> "none", name |-> <<>>, pc |-> "idle",
     confirmed |-> FALSE, sent |-> 0, injected |-> 0, handled |-> 0,
     firstError |-> "none", result |-> "none", effect |-> "none",
     uiAtEntry |-> InitialUI]

\* The content script is in a Meet tab and the popup has not been opened.
PopupClosed ==
    /\ loaded = TRUE
    /\ tab = "meet"
    /\ ui = InitialUI
    /\ call = NoCall

\* ------------------------------------------------------------ the actions

\* handleMutations without its test of the running flag.
HandleMutationsUngated(nodes) ==
    /\ before' = Ledger
    /\ request' = [action |-> "MUTATIONS", nodes |-> nodes]
    /\ attendanceMap' = ProcessAdded(attendanceMap, nodes, now)
    /\ UNCHANGED <<isRunning, observer, startTimestamp, meetingName, now,
                   response>>

\* handleMutations(mutations), mutations carrying the added nodes in order.
\* The observer that calls it is an external collaborator: the callback may
\* be entered in any state, and its own gate is the running flag.
HandleMutations(nodes) ==
    /\ before' = Ledger
    /\ request' = [action |-> "MUTATIONS", nodes |-> nodes]
    /\ attendanceMap' = IF ~isRunning THEN attendanceMap
                        ELSE ProcessAdded(attendanceMap, nodes, now)
    /\ UNCHANGED <<isRunning, observer, startTimestamp, meetingName, now,
                   response>>

\* The chrome.runtime.onMessage listener.
OnMessage(req) ==
    /\ before' = Ledger
    /\ request' = req
    /\ UNCHANGED now
    /\ CASE req.action = "START" -> StartAttendance(req.meetingName)
         [] req.action = "STOP" -> StopAttendance
         [] req.action = "RESTART" -> RestartAttendance
         [] req.action = "EXPORT" -> GenerateCSV(req.meetingName)
         [] OTHER -> /\ UNCHANGED <<attendanceMap, isRunning, observer,
                                     startTimestamp, meetingName>>
                     /\ response' = GetStatus

\* Time passes between two handlers.
Tick ==
    /\ now + ClockStep <= StartClock + MaxTicks * ClockStep
    /\ now' = now + ClockStep
    /\ UNCHANGED <<attendanceMap, isRunning, observer, startTimestamp,
                   meetingName, request, response, before>>

\* The state the script's first run leaves: window.gmeetState as created.
Init ==
    /\ attendanceMap = <<>>
    /\ isRunning = FALSE
    /\ observer = "null"
    /\ startTimestamp = <<>>
    /\ meetingName = <<>>
    /\ now = StartClock
    /\ request = [action |-> "LOAD", meetingName |-> <<>>]
    /\ response = StatusOf(<<>>, FALSE, <<>>, <<>>)
    /\ before = [attendanceMap |-> <<>>, isRunning |-> FALSE,
                 observer |-> "null", startTimestamp |-> <<>>,
                 meetingName |-> <<>>, now |-> StartClock]
    /\ PopupClosed

Next ==
    \/ \E req \in Requests : OnMessage(req) /\ UNCHANGED popupVars
    \/ \E nodes \in Batches : HandleMutations(nodes) /\ UNCHANGED popupVars
    \/ Tick /\ UNCHANGED popupVars

Spec == Init /\ [][Next]_vars

\* ------------------------------------------- the extractor on generated text

Alphabet == {"a", "@", ".", " "}
NameAlphabet == {"a", "B", " ", ":", "."}

\* Every text of exactly k characters of chars.
RECURSIVE TextsOfLen(_, _)
TextsOfLen(chars, k) ==
    IF k = 0 THEN {<<>>}
    ELSE {Append(t, c) : t \in TextsOfLen(chars, k - 1), c \in chars}

\* Every text of at most n characters of chars.
TextsUpTo(chars, n) == UNION {TextsOfLen(chars, k) : k \in 0..n}

GenLocals == {<<"a">>, <<"A">>, <<"-", "a", ".", "b">>}
GenDomains == {<<"b">>, <<"B", "-", ".", "c">>}
GenTlds == {<<"c", "c">>, <<"C", "o", "M">>}
\* Addresses the whole of which EMAIL_REGEX matches.
GenEmails ==
    {l \o <<"@">> \o d \o <<".">> \o t :
        l \in GenLocals, d \in GenDomains, t \in GenTlds}
SplitEmails == {EmailA, EmailAUpper}

GenNames == TextsUpTo(NameAlphabet, MaxNameLen) \ {<<>>}
SplitSeparators == {<<":", " ">>, <<" ", "-", " ">>, <<"\n">>}

\* An element whose text is free text, with no ancestors.
FreeNodes == {Element(text, <<>>) : text \in TextsUpTo(Alphabet, MaxTextLen)}
\* A chat line "name address", with no ancestors.
NamedNodes == {Element(n \o <<" ">> \o e, <<>>) : n \in GenNames, e \in GenEmails}
\* A leaf holding the address alone, in a container holding "name: address".
SplitNodes ==
    {Element(e, <<n \o sep \o e>>) :
        n \in GenNames, sep \in SplitSeparators, e \in SplitEmails}

\* An element whose text is an address between runs of separators and
\* blanks, with no ancestors.
SepAlphabet == {":", "-", " "}
SepRuns == TextsUpTo(SepAlphabet, MaxSepLen)
SepNodes ==
    {Element(pre \o e \o post, <<>>) :
        pre \in SepRuns, post \in SepRuns, e \in SplitEmails}

\* The texts of the ancestors of a leaf that holds EmailA: a line without
\* the address, the address alone, and the address after a name of one,
\* two, three and four characters.
ChainTexts ==
    {<<"h", "i">>, EmailA, <<"a", " ">> \o EmailA, <<"a", "B", " ">> \o EmailA,
     NameBo \o <<":", " ">> \o EmailA, <<"a", "B", "a", "B", " ">> \o EmailA}
\* The longest chain of ancestors generated: one more than the walk visits.
MaxChain == MaxAncestors + 1
\* Every chain of exactly k ancestor texts, closest first.
RECURSIVE ChainsOfLen(_)
ChainsOfLen(k) ==
    IF k = 0 THEN {<<>>}
    ELSE {Append(c, t) : c \in ChainsOfLen(k - 1), t \in ChainTexts}
Chains == UNION {ChainsOfLen(k) : k \in 0..MaxChain}
\* The leaf holds the address alone or after a name of one or two characters.
ChainLeaves ==
    {EmailA, <<"a", " ">> \o EmailA, <<"a", "B", " ">> \o EmailA}
ChainNodes == {Element(leaf, chain) : leaf \in ChainLeaves, chain \in Chains}

GenNodes ==
    FreeNodes \cup NamedNodes \cup SplitNodes \cup SepNodes \cup ChainNodes

\* The ledger right after START on a fresh page, at StartClock.
InitParse ==
    /\ attendanceMap = <<>>
    /\ isRunning = TRUE
    /\ observer = "observing"
    /\ startTimestamp = <<StartClock>>
    /\ meetingName = <<>>
    /\ now = StartClock
    /\ request = [action |-> "START", meetingName |-> <<>>]
    /\ response = StatusOf(<<>>, TRUE, <<>>, <<StartClock>>)
    /\ before = [attendanceMap |-> <<>>, isRunning |-> FALSE,
                 observer |-> "null", startTimestamp |-> <<>>,
                 meetingName |-> <<>>, now |-> StartClock]
    /\ PopupClosed

\* The first mutation callback of the session, for every generated node.
NextParse ==
    /\ request.action = "START"
    /\ \E n \in GenNodes : HandleMutations(<<n>>) /\ UNCHANGED popupVars

SpecParse == InitParse /\ [][NextParse]_vars

\* --------------------------------------------------------------- the export

NameQuote == <<"O", "\"", "B">>
NameQuotes == <<"\"", "\"">>
\* Chat lines whose names hold double quotes, and a plain one.
NodeQuote == Element(NameQuote \o <<" ">> \o EmailA, <<>>)
NodeQuotes == Element(NameQuotes \o <<" ">> \o EmailZ, <<>>)
CsvNodes == {NodeAl, NodeQuote, NodeQuotes}

\* A name with characters the file name keeps and characters it replaces.
NameMixed == <<"a", "-", "_", " ", "9", "/", ".", "Z">>
\* EXPORT with every name the popup may send along.
ExportRequests ==
    {[action |-> "EXPORT", meetingName |-> n] : n \in MeetingNames \cup {NameMixed}}

\* Time passes between the observations and an export.
TickExport ==
    /\ now + ClockStep <= StartClock + MaxExportTicks * ClockStep
    /\ now' = now + ClockStep
    /\ UNCHANGED <<attendanceMap, isRunning, observer, startTimestamp,
                   meetingName, request, response, before>>

\* The ledger right after START, with any of the meeting names, on a fresh
\* page at StartClock.
InitExport ==
    /\ attendanceMap = <<>>
    /\ isRunning = TRUE
    /\ observer = "observing"
    /\ startTimestamp = <<StartClock>>
    /\ meetingName \in MeetingNames
    /\ now = StartClock
    /\ request = [action |-> "START", meetingName |-> meetingName]
    /\ response = StatusOf(<<>>, TRUE, meetingName, <<StartClock>>)
    /\ before = [attendanceMap |-> <<>>, isRunning |-> FALSE,
                 observer |-> "null", startTimestamp |-> <<>>,
                 meetingName |-> <<>>, now |-> StartClock]
    /\ PopupClosed

\* Chat lines are observed as the session starts; exports follow at any hour.
NextExport ==
    \/ /\ now = StartClock
       /\ \E n \in CsvNodes : HandleMutations(<<n>>) /\ UNCHANGED popupVars
    \/ TickExport /\ UNCHANGED popupVars
    \/ \E req \in ExportRequests : OnMessage(req) /\ UNCHANGED popupVars

SpecExport == InitExport /\ [][NextExport]_vars

\* -------------------------------------------------------------- the popup

\* What sendMessage returns: Null, or <<reply>> with the listener's reply.
Null == <<>>

ErrorInvalidPage == "Error: Invalid Page (Meet Only)"
ErrorConnection == "Error: Connection Failed"
\* "Error: " + error.message, for an error that is not a connection error.
ErrorUnknown == "Error: (message)"
\* statusIndicator.textContent.includes("Error")
IncludesError(status) ==
    status \in {ErrorInvalidPage, ErrorConnection, ErrorUnknown}

\* updateStatus(text, isActive)
UpdateStatus(u, text, isActive) ==
    [u EXCEPT !.status = text, !.statusActive = isActive]

\* canResume of refreshUI
CanResume(state) == state.sessionStarted \/ state.count > 0

\* refreshUI(state)
RefreshUI(u, reply) ==
    IF reply = Null THEN u
    ELSE LET state == reply[1]
             drawn ==
                 IF state.isRunning
                 THEN [UpdateStatus(u, "Active", TRUE) EXCEPT
                          !.startShown = TRUE, !.startDisabled = TRUE,
                          !.resumeShown = FALSE, !.stopDisabled = FALSE,
                          !.nameDisabled = TRUE]
                 ELSE IF CanResume(state)
                 THEN [UpdateStatus(u, "Stopped", FALSE) EXCEPT
                          !.stopDisabled = TRUE, !.nameDisabled = FALSE,
                          !.startShown = FALSE, !.resumeShown = TRUE]
                 ELSE [UpdateStatus(u, "Stopped", FALSE) EXCEPT
                          !.stopDisabled = TRUE, !.nameDisabled = FALSE,
                          !.startShown = TRUE, !.startDisabled = FALSE,
                          !.resumeShown = FALSE]
         IN [drawn EXCEPT
                !.rendered = TRUE,
                !.count = state.count,
                !.nameInput = IF state.meetingName # <<>> /\ @ = <<>>
                              THEN state.meetingName ELSE @]

\* What a handler does with the document once its sendMessage has returned
\* reply: handleRestart clears the name input and then calls refreshUI,
\* handleExport leaves the document alone, every other handler calls
\* refreshUI.
Continue(handler, u, reply) ==
    CASE handler = "restart" -> RefreshUI([u EXCEPT !.nameInput = <<>>], reply)
      [] handler = "export" -> u
      [] OTHER -> RefreshUI(u, reply)

\* What handleExport does besides: downloadCSV or alert.
Effect(handler, reply) ==
    IF handler # "export" THEN "none"
    ELSE IF reply # Null /\ reply[1].csvContent # <<>> THEN "download"
    ELSE "alert"

\* The script's top level, run by an injection: the state is created only
\* when the tab has none. (Here it is created anew in every run.)
LoadScriptFresh ==
    /\ before' = Ledger
    /\ request' = [action |-> "LOAD", meetingName |-> <<>>]
    /\ attendanceMap' = <<>>
    /\ isRunning' = FALSE
    /\ observer' = "null"
    /\ startTimestamp' = <<>>
    /\ meetingName' = <<>>
    /\ loaded' = TRUE
    /\ UNCHANGED <<now, response>>

LoadScript ==
    /\ before' = Ledger
    /\ request' = [action |-> "LOAD", meetingName |-> <<>>]
    /\ IF ~loaded
       THEN /\ attendanceMap' = <<>>
            /\ isRunning' = FALSE
            /\ observer' = "null"
            /\ startTimestamp' = <<>>
            /\ meetingName' = <<>>
       ELSE UNCHANGED <<attendanceMap, isRunning, observer, startTimestamp,
                        meetingName>>
    /\ loaded' = TRUE
    /\ UNCHANGED <<now, response>>

\* sendMessage without its page test.
SendMessageAnyPage(handler, confirmed, action, name, u) ==
    /\ call.pc = "idle"
    /\ ui' = u
    /\ call' = [handler |-> handler, action |-> action, name |-> name,
                pc |-> "first", confirmed |-> confirmed,
                sent |-> 0, injected |-> 0, handled |-> 0,
                firstError |-> "none", result |-> "pending",
                effect |-> "none", uiAtEntry |-> u]
    /\ UNCHANGED <<attendanceMap, isRunning, observer, startTimestamp,
                   meetingName, now, request, response, before, loaded, tab>>

\* A handler calls sendMessage(action, {meetingName: name}) with the document
\* as u, handleRestart after the answer confirmed to its confirm(), the
\* others unasked: the tab query and the page test. On a page that is not a Meet page
\* the call is over at once, with null.
SendMessage(handler, confirmed, action, name, u) ==
    /\ call.pc = "idle"
    /\ IF tab # "meet"
       THEN /\ ui' = Continue(handler,
                              UpdateStatus(u, ErrorInvalidPage, FALSE), Null)
            /\ call' = [handler |-> handler, action |-> action, name |-> name,
                        pc |-> "idle", confirmed |-> confirmed,
                        sent |-> 0, injected |-> 0, handled |-> 0,
                        firstError |-> "none", result |-> "null",
                        effect |-> Effect(handler, Null), uiAtEntry |-> u]
       ELSE /\ ui' = u
            /\ call' = [handler |-> handler, action |-> action, name |-> name,
                        pc |-> "first", confirmed |-> confirmed,
                        sent |-> 0, injected |-> 0, handled |-> 0,
                        firstError |-> "none", result |-> "pending",
                        effect |-> "none", uiAtEntry |-> u]
    /\ UNCHANGED <<attendanceMap, isRunning, observer, startTimestamp,
                   meetingName, now, request, response, before, loaded, tab>>

\* chrome.tabs.sendMessage reaches the listener, the first time or the
\* second: the listener handles the message and the handler goes on with
\* its reply.
Delivered ==
    /\ call.pc \in {"first", "retry"}
    /\ loaded
    /\ OnMessage([action |-> call.action, meetingName |-> call.name])
    /\ ui' = Continue(call.handler, ui, <<response'>>)
    /\ call' = [call EXCEPT !.pc = "idle", !.sent = @ + 1, !.handled = @ + 1,
                            !.result = "reply",
                            !.effect = Effect(call.handler, <<response'>>),
                            !.uiAtEntry = ui]
    /\ UNCHANGED <<loaded, tab>>

\* sendMessage returns null after updateStatus(text, false), and the handler
\* goes on with null; error is the kind of the error of the first attempt.
ReturnNull(text, sent, injected, error) ==
    /\ ui' = Continue(call.handler, UpdateStatus(ui, text, FALSE), Null)
    /\ call' = [call EXCEPT !.pc = "idle", !.sent = @ + sent,
                            !.injected = @ + injected, !.result = "null",
                            !.firstError = error,
                            !.effect = Effect(call.handler, Null),
                            !.uiAtEntry = ui]
    /\ UNCHANGED <<attendanceMap, isRunning, observer, startTimestamp,
                   meetingName, now, request, response, before, loaded, tab>>

\* The first chrome.tabs.sendMessage fails with "Could not establish
\* connection. Receiving end does not exist.": as it must when the script is
\* not in the tab, and as it may when the tab's listener cannot be reached.
FirstFailsNoReceiver ==
    /\ call.pc = "first"
    /\ call' = [call EXCEPT !.pc = "inject", !.sent = @ + 1,
                            !.firstError = "connection"]
    /\ UNCHANGED <<attendanceMap, isRunning, observer, startTimestamp,
                   meetingName, now, request, response, before, loaded, tab,
                   ui>>

\* The first chrome.tabs.sendMessage fails with another error.
FirstFailsOther ==
    /\ call.pc = "first"
    /\ ReturnNull(ErrorUnknown, 1, 0, "other")

\* chrome.scripting.executeScript runs content.js in the tab.
Injected ==
    /\ call.pc = "inject"
    /\ LoadScript
    /\ call' = [call EXCEPT !.pc = "retry", !.injected = @ + 1]
    /\ UNCHANGED <<tab, ui>>

\* chrome.scripting.executeScript fails.
InjectFails ==
    /\ call.pc = "inject"
    /\ ReturnNull(ErrorConnection, 0, 1, call.firstError)

\* The second chrome.tabs.sendMessage fails, with whatever error.
RetryFails ==
    /\ call.pc = "retry"
    /\ ReturnNull(ErrorConnection, 1, 0, call.firstError)

\* DOMContentLoaded: the popup is opened (again), its document is new, and
\* it asks for the status.
PopupOpen == SendMessage("open", FALSE, "GET_STATUS", <<>>, InitialUI)

\* The popup is open and no handler is waiting for sendMessage: the calls of
\* sendMessage are taken one at a time.
PopupIdle == call.handler # "none" /\ call.pc = "idle"

\* The interval timer.
Poll ==
    /\ PopupIdle
    /\ ~IncludesError(ui.status)
    /\ SendMessage("poll", FALSE, "GET_STATUS", <<>>, ui)

\* handleStart, by a click on startBtn or on resumeBtn.
HandleStart ==
    /\ PopupIdle
    /\ \/ ~ui.rendered
       \/ ui.startShown /\ ~ui.startDisabled
       \/ ui.resumeShown
    /\ SendMessage("start", FALSE, "START", Trim(ui.nameInput), ui)

\* handleStop, by a click on stopBtn.
HandleStop ==
    /\ PopupIdle
    /\ ~ui.rendered \/ ~ui.stopDisabled
    /\ SendMessage("stop", FALSE, "STOP", <<>>, ui)

\* handleRestart that does not ask.
HandleRestartUnasked(confirmed) ==
    /\ PopupIdle
    /\ SendMessage("restart", confirmed, "RESTART", <<>>, ui)

\* handleRestart, by a click on restartBtn; confirmed is the user's answer
\* to confirm().
HandleRestart(confirmed) ==
    /\ PopupIdle
    /\ IF confirmed
       THEN SendMessage("restart", TRUE, "RESTART", <<>>, ui)
       ELSE /\ call' = [NoCall EXCEPT !.handler = "restart", !.uiAtEntry = ui]
            /\ UNCHANGED <<attendanceMap, isRunning, observer, startTimestamp,
                           meetingName, now, request, response, before,
                           loaded, tab, ui>>

\* handleExport, by a click on exportBtn.
HandleExport ==
    /\ PopupIdle
    /\ SendMessage("export", FALSE, "EXPORT", Trim(ui.nameInput), ui)

\* What the user may type into the name input.
TypedNames == {<<>>, <<"M", " ">>}

\* The user edits the name input.
TypeName(text) ==
    /\ call.handler # "none"
    /\ ~ui.nameDisabled
    /\ ui.nameInput # text
    /\ ui' = [ui EXCEPT !.nameInput = text]
    /\ UNCHANGED <<attendanceMap, isRunning, observer, startTimestamp,
                   meetingName, now, request, response, before, loaded, tab,
                   call>>

\* The user makes another tab the active one, or none; the popup, if open,
\* closes with it. The Meet tab keeps its content script.
Tabs == {"meet", "other", "none"}
SwitchTab(t) ==
    /\ call.pc = "idle"
    /\ t # tab
    /\ tab' = t
    /\ ui' = InitialUI
    /\ call' = NoCall
    /\ UNCHANGED <<attendanceMap, isRunning, observer, startTimestamp,
                   meetingName, now, request, response, before, loaded>>

\* The popup over a tab that may or may not be a Meet page and may or may
\* not hold the content script yet; its ledger is as the script creates it.
InitPopup ==
    /\ attendanceMap = <<>>
    /\ isRunning = FALSE
    /\ observer = "null"
    /\ startTimestamp = <<>>
    /\ meetingName = <<>>
    /\ now = StartClock
    /\ request = [action |-> "LOAD", meetingName |-> <<>>]
    /\ response = StatusOf(<<>>, FALSE, <<>>, <<>>)
    /\ before = [attendanceMap |-> <<>>, isRunning |-> FALSE,
                 observer |-> "null", startTimestamp |-> <<>>,
                 meetingName |-> <<>>, now |-> StartClock]
    /\ loaded \in BOOLEAN
    /\ tab \in Tabs
    /\ ui = InitialUI
    /\ call = NoCall

NextPopup ==
    \/ PopupOpen
    \/ Poll
    \/ HandleStart
    \/ HandleStop
    \/ \E confirmed \in BOOLEAN : HandleRestart(confirmed)
    \/ HandleExport
    \/ \E text \in TypedNames : TypeName(text)
    \/ \E t \in Tabs : SwitchTab(t)
    \/ Delivered
    \/ FirstFailsNoReceiver
    \/ FirstFailsOther
    \/ Injected
    \/ InjectFails
    \/ RetryFails
    \/ HandleMutations(<<NodeAl>>) /\ UNCHANGED popupVars

SpecPopup == InitPopup /\ [][NextPopup]_vars

\* ---------------------------------------------------------------- claims

MapHas(map, key) == \E i \in DOMAIN map : map[i].key = key
MapGet(map, key) == map[CHOOSE i \in DOMAIN map : map[i].key = key].value

\* The handler that ran last left the ledger as it found it.
SameLedger ==
    /\ attendanceMap = before.attendanceMap
    /\ isRunning = before.isRunning
    /\ observer = before.observer
    /\ startTimestamp = before.startTimestamp
    /\ meetingName = before.meetingName

\* The response sent last reports the ledger as it is.
ResponseIsSnapshot ==
    /\ response.isRunning = isRunning
    /\ response.count = Len(attendanceMap)
    /\ response.meetingName = meetingName
    /\ response.sessionStarted = (startTimestamp # <<>>)

\* The (name, email) each node of Nodes is an observation of, if of any.
ObservationOf(node) ==
    CASE node = NodeAl -> <<[name |-> NameAl, email |-> EmailA]>>
      [] node = NodeBo -> <<[name |-> NameBo, email |-> EmailA]>>
      [] node = NodeSplit -> <<[name |-> NameBo, email |-> EmailZ]>>
      [] OTHER -> <<>>

\* text holds a substring of the shape local@domain.tld of EMAIL_REGEX.
HasEmailLike(text) ==
    \E i, k, j \in 1..Len(text) :
        /\ i < k /\ k + 1 < j /\ j + 2 <= Len(text)
        /\ text[k] = "@" /\ text[j] = "."
        /\ \A p \in i..(k - 1) : text[p] \in LocalChars
        /\ \A p \in (k + 1)..(j - 1) : text[p] \in DomainChars
        /\ text[j + 1] \in Letters /\ text[j + 2] \in Letters

\* A name of at least two characters with no white space or separator at
\* either end and no address in it.
IsPlainName(n) ==
    /\ Len(n) >= 2
    /\ n[1] \notin WhiteSpace \cup Separators
    /\ n[Len(n)] \notin WhiteSpace \cup Separators
    /\ ~HasEmailLike(n)

\* The record recordAttendance writes for (name, email) at clock t.
RecordOf(name, email, t) ==
    [name |-> name, email |-> email, time |-> TimeStr(t), date |-> DateStr(t),
     timestamp |-> t]

\* C1: the ledger never holds two records whose e-mails are equal after
\* lower-casing; a batch observed while running leaves, for each e-mail it
\* carries, exactly one record, with the name observed last and the time and
\* date of that observation; and an observation removes no record.
C1_OneRecordPerEmail ==
    /\ \A i, j \in DOMAIN attendanceMap :
          ToLowerCase(attendanceMap[i].key) = ToLowerCase(attendanceMap[j].key)
              => i = j
    /\ (request.action = "MUTATIONS" /\ before.isRunning) =>
          /\ \A i \in DOMAIN request.nodes :
                LET obs == ObservationOf(request.nodes[i])
                    last == \A j \in DOMAIN request.nodes :
                               (j > i /\ ObservationOf(request.nodes[j]) # <<>>)
                               => ObservationOf(request.nodes[j])[1].email
                                      # obs[1].email
                IN (obs # <<>> /\ last) =>
                      /\ Cardinality({k \in DOMAIN attendanceMap :
                             attendanceMap[k].key = obs[1].email}) = 1
                      /\ MapGet(attendanceMap, obs[1].email)
                            = RecordOf(obs[1].name, obs[1].email, before.now)
          /\ \A k \in DOMAIN before.attendanceMap :
                MapHas(attendanceMap, before.attendanceMap[k].key)

\* "Bo A@b.cc" observed after "Al a@b.cc" was recorded at an earlier time.
C1_Witness ==
    /\ request.action = "MUTATIONS" /\ request.nodes = <<NodeBo>>
    /\ before.isRunning
    /\ Len(before.attendanceMap) = 1
    /\ before.attendanceMap[1].key = EmailA
    /\ before.attendanceMap[1].value.name = NameAl
    /\ before.attendanceMap[1].value.timestamp < before.now
    /\ Len(attendanceMap) = 1
    /\ attendanceMap[1].key = EmailA
    /\ attendanceMap[1].value.name = NameBo
    /\ attendanceMap[1].value.timestamp = before.now
    /\ attendanceMap[1].value.time # before.attendanceMap[1].value.time

\* C2: RESTART leaves the ledger empty, idle, without a meeting name and
\* without a start time, whatever it was, and answers with that snapshot.
C2_RestartClears ==
    request.action = "RESTART" =>
        /\ attendanceMap = <<>>
        /\ isRunning = FALSE
        /\ meetingName = <<>>
        /\ startTimestamp = <<>>
        /\ response = [isRunning |-> FALSE, count |-> 0, meetingName |-> <<>>,
                       sessionStarted |-> FALSE]

\* RESTART of a running, populated, named session.
C2_Witness ==
    /\ request.action = "RESTART"
    /\ before.isRunning
    /\ Len(before.attendanceMap) = 2
    /\ before.meetingName # <<>>
    /\ before.startTimestamp # <<>>
    /\ attendanceMap = <<>>

\* C3: START while running changes nothing, whatever name it carries, and
\* answers with the snapshot of the ledger as it was.
C3_StartWhileRunning ==
    (request.action = "START" /\ before.isRunning) =>
        /\ SameLedger
        /\ response = [isRunning |-> TRUE,
                       count |-> Len(before.attendanceMap),
                       meetingName |-> before.meetingName,
                       sessionStarted |-> before.startTimestamp # <<>>]

\* START "Q&A" received by a running session named "M" that started earlier.
C3_Witness ==
    /\ request = [action |-> "START", meetingName |-> <<"Q", "&", "A">>]
    /\ before.isRunning
    /\ before.meetingName = <<"M">>
    /\ before.startTimestamp = <<StartClock>>
    /\ before.now > StartClock
    /\ Len(before.attendanceMap) > 0
    /\ meetingName = <<"M">>

\* C4: only START with no start time set, and RESTART, change the start
\* time: START sets it to the clock then, RESTART unsets it; every other
\* handler, a later START included, leaves it as it is.
C4_StartStampedOnce ==
    /\ (request.action # "RESTART" /\ before.startTimestamp # <<>>)
          => startTimestamp = before.startTimestamp
    /\ startTimestamp # before.startTimestamp =>
          \/ request.action = "RESTART" /\ startTimestamp = <<>>
          \/ /\ request.action = "START"
             /\ before.startTimestamp = <<>>
             /\ startTimestamp = <<before.now>>

\* A resume: START of a stopped session whose start time is in the past.
C4_Witness ==
    /\ request.action = "START"
    /\ ~before.isRunning /\ isRunning
    /\ before.startTimestamp = <<StartClock>>
    /\ before.now > StartClock
    /\ startTimestamp = <<StartClock>>

\* C5: no handler but RESTART removes a record; START and STOP leave the
\* records as they are; STOP changes nothing but the running flag (and the
\* observer it disconnects), and STOP of a stopped ledger changes nothing.
C5_RecordsKept ==
    /\ request.action # "RESTART" =>
          /\ Len(attendanceMap) >= Len(before.attendanceMap)
          /\ \A k \in DOMAIN before.attendanceMap :
                MapHas(attendanceMap, before.attendanceMap[k].key)
    /\ request.action \in {"START", "STOP"} =>
          attendanceMap = before.attendanceMap
    /\ request.action = "STOP" =>
          /\ isRunning = FALSE
          /\ meetingName = before.meetingName
          /\ startTimestamp = before.startTimestamp
    /\ (request.action = "STOP" /\ ~before.isRunning) => SameLedger

\* A resume of a stopped session that holds two records.
C5_Witness ==
    /\ request.action = "START"
    /\ ~before.isRunning /\ isRunning
    /\ before.observer = "disconnected"
    /\ Len(before.attendanceMap) = 2
    /\ attendanceMap = before.attendanceMap

\* C6: EXPORT, GET_STATUS and an unknown verb leave the ledger as it is,
\* running or not, and the snapshot they answer with reports it; EXPORT with
\* a name does not store the name.
C6_QueriesChangeNothing ==
    request.action \in {"EXPORT", "GET_STATUS", "PING"} =>
        SameLedger /\ ResponseIsSnapshot

\* EXPORT "Q&A" of a running session named "M" that holds a record.
C6_Witness ==
    /\ request = [action |-> "EXPORT", meetingName |-> <<"Q", "&", "A">>]
    /\ before.isRunning
    /\ before.meetingName = <<"M">>
    /\ Len(before.attendanceMap) > 0
    /\ meetingName = <<"M">>
    /\ response.count = Len(attendanceMap)

\* C7: a mutation batch delivered while the ledger is not running changes
\* nothing, whatever its nodes hold.
C7_GatedByRunning ==
    (request.action = "MUTATIONS" /\ ~before.isRunning) => SameLedger

\* "Al a@b.cc" delivered to a stopped ledger that holds another record.
C7_Witness ==
    /\ request.action = "MUTATIONS" /\ request.nodes = <<NodeAl>>
    /\ ~before.isRunning
    /\ before.observer = "disconnected"
    /\ Len(before.attendanceMap) = 1
    /\ ~MapHas(attendanceMap, EmailA)

\* C8: a batch none of whose nodes holds an e-mail-like substring leaves the
\* ledger as it was.
C8_NoEmailNoRecord ==
    (/\ request.action = "MUTATIONS"
     /\ \A i \in DOMAIN request.nodes :
           ~HasEmailLike(request.nodes[i].innerText))
        => SameLedger

\* "a@a.a " (a one-letter top-level domain) observed while running.
C8_Witness ==
    /\ request.action = "MUTATIONS"
    /\ before.isRunning
    /\ request.nodes = <<Element(<<"a", "@", "a", ".", "a", " ">>, <<>>)>>
    /\ attendanceMap = <<>>

\* C9: the text name + " " + address of an element without ancestors, the
\* name a plain name and the address one of GenEmails, observed while
\* running, upserts exactly (name, the address in lower case).
C9_NameThenEmail ==
    (/\ request.action = "MUTATIONS"
     /\ before.isRunning
     /\ Len(request.nodes) = 1
     /\ request.nodes[1].nodeType = "ELEMENT"
     /\ request.nodes[1].ancestors = <<>>) =>
        \A e \in GenEmails :
            LET text == request.nodes[1].innerText
                n == Len(text) - Len(e) - 1
                name == SubSeq(text, 1, n)
            IN (/\ n >= 2
                /\ SubSeq(text, n + 1, Len(text)) = <<" ">> \o e
                /\ IsPlainName(name)) =>
                   /\ Cardinality({k \in DOMAIN attendanceMap :
                          attendanceMap[k].key = ToLowerCase(e)}) = 1
                   /\ MapGet(attendanceMap, ToLowerCase(e))
                         = RecordOf(name, ToLowerCase(e), before.now)
                   /\ Len(attendanceMap) = Len(before.attendanceMap)
                         + (IF MapHas(before.attendanceMap, ToLowerCase(e))
                            THEN 0 ELSE 1)

\* "B.a A@B-.c.CoM" observed while running.
C9_Witness ==
    /\ request.action = "MUTATIONS"
    /\ before.isRunning
    /\ request.nodes = <<Element(<<"B", ".", "a", " ", "A", "@", "B", "-",
                                   ".", "c", ".", "C", "o", "M">>, <<>>)>>
    /\ Len(attendanceMap) = 1
    /\ attendanceMap[1].key = <<"a", "@", "b", "-", ".", "c", ".", "c", "o", "m">>
    /\ attendanceMap[1].value.name = <<"B", ".", "a">>

\* A plain name of letters and spaces.
IsWordName(n) ==
    IsPlainName(n) /\ \A i \in DOMAIN n : n[i] \in Letters \cup {" "}

\* C10: a leaf whose text is the address alone, in a container whose text is
\* name + ": " + address, observed while running, is recorded under the
\* name, in whatever letter case the address is written.
C10_AncestorName ==
    (/\ request.action = "MUTATIONS"
     /\ before.isRunning
     /\ Len(request.nodes) = 1
     /\ request.nodes[1].nodeType = "ELEMENT"
     /\ Len(request.nodes[1].ancestors) = 1) =>
        \A e \in SplitEmails :
            LET parent == request.nodes[1].ancestors[1]
                n == Len(parent) - Len(e) - 2
                name == SubSeq(parent, 1, n)
            IN (/\ request.nodes[1].innerText = e
                /\ n >= 2
                /\ SubSeq(parent, n + 1, Len(parent)) = <<":", " ">> \o e
                /\ IsWordName(name)) =>
                   /\ MapHas(attendanceMap, ToLowerCase(e))
                   /\ MapGet(attendanceMap, ToLowerCase(e)).name = name

\* The text of an address before its "@".
BeforeAt(email) ==
    SubSeq(email, 1, (CHOOSE p \in DOMAIN email :
                         email[p] = "@" /\ \A q \in 1..(p - 1) : email[q] # "@") - 1)

\* The run of "-" that ends text.
RECURSIVE DashTail(_)
DashTail(text) ==
    IF text = <<>> \/ text[Len(text)] # "-" THEN <<>>
    ELSE Append(DashTail(SubSeq(text, 1, Len(text) - 1)), "-")

\* C11: no record of the ledger has an empty name; and an element without
\* ancestors whose text is one address of SplitEmails with nothing around it
\* but separator characters, or nothing but white space, is recorded under
\* the text before the "@" of the address matched (the address with the "-"
\* that run into it), in lower case.
C11_NameNeverEmpty ==
    /\ \A i \in DOMAIN attendanceMap : attendanceMap[i].value.name # <<>>
    /\ (/\ request.action = "MUTATIONS"
        /\ before.isRunning
        /\ Len(request.nodes) = 1
        /\ request.nodes[1].nodeType = "ELEMENT"
        /\ request.nodes[1].ancestors = <<>>) =>
           \A e \in SplitEmails :
               LET text == request.nodes[1].innerText
               IN \A k \in 0..(Len(text) - Len(e)) :
                     LET pre == SubSeq(text, 1, k)
                         post == SubSeq(text, k + Len(e) + 1, Len(text))
                         around == {pre[i] : i \in DOMAIN pre}
                                       \cup {post[i] : i \in DOMAIN post}
                         matched == ToLowerCase(DashTail(pre) \o e)
                     IN (/\ SubSeq(text, k + 1, k + Len(e)) = e
                         /\ \/ around \subseteq Separators
                            \/ around \subseteq WhiteSpace) =>
                            /\ MapHas(attendanceMap, matched)
                            /\ MapGet(attendanceMap, matched).name
                                  = BeforeAt(matched)
                            /\ BeforeAt(matched) # <<>>

\* ":A@b.cc:-" observed while running.
C11_Witness ==
    /\ request.action = "MUTATIONS"
    /\ before.isRunning
    /\ request.nodes = <<Element(<<":">> \o EmailAUpper \o <<":", "-">>, <<>>)>>
    /\ Len(attendanceMap) = 1
    /\ attendanceMap[1].key = EmailA
    /\ attendanceMap[1].value.name = <<"a">>

\* The listener handles a message in this step.
ListenerRuns ==
    /\ request'.action \notin {"LOAD", "MUTATIONS"}
    /\ call'.handled = call.handled + 1

\* This step is a click on restartBtn answered "Cancel".
RestartDeclined ==
    /\ call' # call
    /\ call'.handler = "restart"
    /\ ~call'.confirmed

C12_Sent ==
    /\ call.action = "RESTART" => call.handler = "restart" /\ call.confirmed
    /\ (call.handler = "restart" /\ ~call.confirmed) =>
          /\ call.pc = "idle" /\ call.action = "none"
          /\ call.sent = 0 /\ call.injected = 0 /\ call.handled = 0

C12_Step ==
    /\ (ListenerRuns /\ request'.action = "RESTART") =>
          call.handler = "restart" /\ call.confirmed
    /\ RestartDeclined =>
          UNCHANGED <<attendanceMap, isRunning, observer, startTimestamp,
                      meetingName, request, response, loaded, ui>>

\* C12: the popup sends RESTART only in a handleRestart whose confirm() was
\* answered "OK", and the listener handles RESTART only for such a call; a
\* click answered "Cancel" sends and injects nothing and leaves the ledger
\* and the popup's document, its name input included, as they were.
C12_RestartOnlyConfirmed == []C12_Sent /\ [][C12_Step]_vars

\* "Cancel" on a running, named session with a record, the name on display.
C12_Witness ==
    /\ call.handler = "restart" /\ ~call.confirmed
    /\ isRunning
    /\ Len(attendanceMap) = 1
    /\ meetingName = <<"M">>
    /\ ui.nameInput # <<>>
    /\ ui = call.uiAtEntry
    /\ request.action # "RESTART"

\* This step is a call of sendMessage while the active tab is not a Meet page.
CallOffMeet ==
    /\ tab # "meet"
    /\ call.pc = "idle"
    /\ call' # call
    /\ call'.action # "none"

C13_Rejected ==
    (tab # "meet" /\ call.action # "none") =>
        /\ call.pc = "idle" /\ call.result = "null"
        /\ call.sent = 0 /\ call.injected = 0 /\ call.handled = 0
        /\ ui.status = ErrorInvalidPage

C13_Step ==
    CallOffMeet =>
        /\ call'.result = "null" /\ call'.pc = "idle"
        /\ call'.sent = 0 /\ call'.injected = 0 /\ call'.handled = 0
        /\ ui'.status = ErrorInvalidPage
        /\ UNCHANGED <<attendanceMap, isRunning, observer, startTimestamp,
                       meetingName, request, response, before, loaded>>

\* C13: while the active tab is missing or is not a Meet page, every call of
\* sendMessage, whatever its action, ends at once with null and the status
\* "Error: Invalid Page (Meet Only)": nothing is delivered, nothing is
\* injected, and the ledger of the Meet tab stays as it was.
C13_WrongContext == []C13_Rejected /\ [][C13_Step]_vars

\* A confirmed RESTART over another page while the Meet tab holds a running
\* session with a record.
C13_Witness ==
    /\ tab = "other"
    /\ call.action = "RESTART" /\ call.confirmed
    /\ call.result = "null" /\ call.sent = 0 /\ call.injected = 0
    /\ ui.status = ErrorInvalidPage
    /\ isRunning
    /\ Len(attendanceMap) = 1

\* What the popup shows besides its status badge.
Display(u) == [u EXCEPT !.status = "", !.statusActive = FALSE]

\* This step ends a call of sendMessage that reached the transport with null.
TransportFails ==
    /\ call.pc \in {"first", "inject", "retry"}
    /\ call'.result = "null"

C14_Bounded ==
    /\ call.sent <= 2 /\ call.injected <= 1 /\ call.handled <= 1
    /\ (call.injected > 0 \/ call.sent > 1 \/ call.pc \in {"inject", "retry"}) =>
          call.sent >= 1 /\ call.firstError = "connection"
    /\ call.sent > 1 => call.injected = 1
    /\ (call.result = "null" /\ call.sent > 0) =>
          /\ call.handled = 0
          /\ ui.status \in {ErrorConnection, ErrorUnknown}
    /\ (call.result = "null" /\ call.injected > 0) => ui.status = ErrorConnection

C14_Untouched ==
    TransportFails =>
        UNCHANGED <<attendanceMap, isRunning, observer, startTimestamp,
                    meetingName, request, response, before>>

C14_Shown ==
    TransportFails => Display(ui') = Display(ui)

\* C14: a call of sendMessage delivers at most twice and injects at most
\* once, and injects and retries only after a first attempt that failed with
\* a connection error; when it ends with null the listener has handled
\* nothing, an error status is on display, the ledger is as it was, and what
\* the popup shows besides the status is as it was.
C14_TransportFailure ==
    []C14_Bounded /\ [][C14_Untouched]_vars /\ [][C14_Shown]_vars

\* C14 but for what the popup shows after the failure.
C14_BoundedUntouched == []C14_Bounded /\ [][C14_Untouched]_vars

\* C14's display clause for every handler but handleRestart.
C14_ShownButRestart ==
    [][(TransportFails /\ call.handler # "restart") => Display(ui') = Display(ui)]_vars

\* The lines of text: its parts between line feeds.
RECURSIVE SplitLines(_)
SplitLines(text) ==
    IF \A i \in DOMAIN text : text[i] # "\n" THEN <<text>>
    ELSE LET k == CHOOSE i \in DOMAIN text :
                     text[i] = "\n" /\ \A j \in 1..(i - 1) : text[j] # "\n"
         IN <<SubSeq(text, 1, k - 1)>>
                \o SplitLines(SubSeq(text, k + 1, Len(text)))

\* The CSV field of each name the chat lines of CsvNodes carry.
QuotedName(name) ==
    CASE name = NameAl -> <<"\"", "A", "l", "\"">>
      [] name = NameQuote -> <<"\"", "O", "\"", "\"", "B", "\"">>
      [] name = NameQuotes -> <<"\"", "\"", "\"", "\"", "\"", "\"">>

\* C15: the CSV text of an EXPORT is the line Name,Email,Time,Date followed
\* by one line per record, as many as the count of the same response and in
\* the order of the map: the name in double quotes with each double quote of
\* it doubled, the e-mail in double quotes, the time and the date as stored.
C15_CsvRows ==
    request.action = "EXPORT" =>
        LET lines == SplitLines(response.csvContent)
        IN /\ Len(lines) = 1 + response.count
           /\ response.count = Len(before.attendanceMap)
           /\ lines[1] = <<"N", "a", "m", "e", ",", "E", "m", "a", "i", "l",
                           ",", "T", "i", "m", "e", ",", "D", "a", "t", "e">>
           /\ \A i \in DOMAIN before.attendanceMap :
                 LET r == before.attendanceMap[i].value
                 IN lines[i + 1] =
                        QuotedName(r.name) \o <<",", "\"">> \o r.email
                            \o <<"\"", ",">> \o r.time \o <<",">> \o r.date

\* The export of "" z@b.cc followed by O"B a@b.cc.
C15_Witness ==
    /\ request.action = "EXPORT"
    /\ Len(before.attendanceMap) = 2
    /\ before.attendanceMap[1].value.name = NameQuotes
    /\ before.attendanceMap[2].value.name = NameQuote
    /\ Len(SplitLines(response.csvContent)) = 3
    /\ SplitLines(response.csvContent)[3] =
          <<"\"", "O", "\"", "\"", "B", "\"", ",", "\"">> \o EmailA
              \o <<"\"", ",">> \o TimeStr(StartClock) \o <<",">>
              \o DateStr(StartClock)

\* The HH of the file name for each hour 0..23 of the day.
HourText ==
    <<<<"1", "2">>, <<"0", "1">>, <<"0", "2">>, <<"0", "3">>,
      <<"0", "4">>, <<"0", "5">>, <<"0", "6">>, <<"0", "7">>,
      <<"0", "8">>, <<"0", "9">>, <<"1", "0">>, <<"1", "1">>,
      <<"1", "2">>, <<"0", "1">>, <<"0", "2">>, <<"0", "3">>,
      <<"0", "4">>, <<"0", "5">>, <<"0", "6">>, <<"0", "7">>,
      <<"0", "8">>, <<"0", "9">>, <<"1", "0">>, <<"1", "1">>>>

\* The file-name prefix of each name an export may go by.
NamePrefix(name) ==
    CASE name = <<>> -> <<>>
      [] name = <<"M">> -> <<"M", "_">>
      [] name = <<"Q", "&", "A">> -> <<"Q", "_", "A", "_">>
      [] name = NameMixed -> <<"a", "-", "_", " ", "9", "_", "_", "Z", "_">>

\* text with every "/" turned into "-".
Dashed(text) == [i \in DOMAIN text |-> IF text[i] = "/" THEN "-" ELSE text[i]]

\* C16: the file name of an EXPORT is the sanitized name the request carries
\* or, when it carries none, the stored one, followed by "_" (nothing when
\* both are empty), then DD-MM-YYYY_HH-MM-AMPM.csv of the clock at the
\* export: HH is 12 at hours 0 and 12 and else the hour modulo 12, in two
\* digits, and PM stands exactly from hour 12 on.
C16_FileName ==
    request.action = "EXPORT" =>
        LET name == IF request.meetingName # <<>> THEN request.meetingName
                    ELSE before.meetingName
            h == (before.now % 1440) \div 60
            f == response.filename
            k == Len(NamePrefix(name))
            stamp == SubSeq(f, k + 1, Len(f))
            hh == SubSeq(stamp, 12, 13)
        IN /\ SubSeq(f, 1, k) = NamePrefix(name)
           /\ Len(stamp) = 23
           /\ SubSeq(stamp, 1, 10) = Dashed(DateStr(before.now))
           /\ stamp[11] = "_"
           /\ hh = HourText[h + 1]
           /\ SubSeq(stamp, 14, 17) = <<"-">> \o Pad2(before.now % 60) \o <<"-">>
           /\ SubSeq(stamp, 18, 19) = (IF h >= 12 THEN <<"P", "M">> ELSE <<"A", "M">>)
           /\ SubSeq(stamp, 20, 23) = <<".", "c", "s", "v">>

\* EXPORT "Q&A" at midnight, days into a session named "M" that began at
\* 09:00.
C16_Witness ==
    /\ request = [action |-> "EXPORT", meetingName |-> <<"Q", "&", "A">>]
    /\ before.meetingName = <<"M">>
    /\ before.startTimestamp = <<StartClock>>
    /\ before.now = StartClock + 9 * ClockStep
    /\ GetHours(before.now) = 0
    /\ GetHours(StartClock) = 9
    /\ response.filename =
          <<"Q", "_", "A", "_", "1", "0", "-", "0", "1",
            "-", "2", "0", "2", "6", "_", "1", "2", "-",
            "0", "0", "-", "A", "M", ".", "c", "s", "v">>

\* The request is one element delivered to the running ledger.
OneElementObserved ==
    /\ request.action = "MUTATIONS"
    /\ before.isRunning
    /\ Len(request.nodes) = 1
    /\ request.nodes[1].nodeType = "ELEMENT"

\* C17: an element whose own text, the matched address removed and the rest
\* trimmed, has two characters or more is recorded as the same element
\* without ancestors is; so "aB a@b.cc" is recorded under "aB" whatever its
\* ancestors hold.
C17_WidenOnlyShortLeaf ==
    OneElementObserved =>
        LET node == request.nodes[1]
            text == node.innerText
            m == RegexMatch(text)
        IN /\ (/\ m # <<>>
               /\ Len(Trim(RemoveFirst(text, SubSeq(text, m[1], m[2])))) >= 2) =>
                  attendanceMap =
                      ProcessNode(before.attendanceMap,
                                  [node EXCEPT !.ancestors = <<>>], before.now)
           /\ text = <<"a", "B", " ">> \o EmailA =>
                  /\ Len(attendanceMap) = 1
                  /\ attendanceMap[1].value
                        = RecordOf(<<"a", "B">>, EmailA, before.now)

\* "aB a@b.cc" inside "Bo: a@b.cc" inside "aBaB a@b.cc".
C17_Witness ==
    /\ OneElementObserved
    /\ request.nodes[1].innerText = <<"a", "B", " ">> \o EmailA
    /\ request.nodes[1].ancestors =
          <<NameBo \o <<":", " ">> \o EmailA, <<"a", "B", "a", "B", " ">> \o EmailA>>
    /\ attendanceMap[1].value.name = <<"a", "B">>

\* text holds pat.
Holds(text, pat) ==
    \E k \in 1..(Len(text) - Len(pat) + 1) :
        SubSeq(text, k, k + Len(pat) - 1) = pat

\* The name the walk is to leave for a leaf name of fewer than 2 characters
\* and the ancestor texts chain, for the address EmailA: among the nearest
\* three ancestors that hold the address, the nearest whose text without the
\* address has more than 2 characters; failing that, the nearest of those with
\* the longest such text, if longer than the leaf name; else the leaf name.
WalkResult(leafName, chain) ==
    LET near == {i \in DOMAIN chain : i <= 3 /\ Holds(chain[i], EmailA)}
        rest(i) == Trim(RemoveFirst(chain[i], EmailA))
        long == {i \in near : Len(rest(i)) > 2}
        top == {i \in near : \A j \in near : Len(rest(j)) <= Len(rest(i))}
        Nearest(S) == CHOOSE i \in S : \A j \in S : i <= j
    IN IF long # {} THEN rest(Nearest(long))
       ELSE IF top # {} /\ Len(rest(Nearest(top))) > Len(leafName)
       THEN rest(Nearest(top))
       ELSE leafName

\* C18: for a leaf that holds EmailA alone or after one character, the name
\* recorded is the one WalkResult describes, separators stripped, or "a" when
\* that is empty: nearest ancestor first, none beyond the third, a later one
\* only when strictly longer, none after a name of more than 2 characters;
\* and the fourth ancestor and those beyond change nothing.
C18_BoundedWalk ==
    OneElementObserved =>
        LET node == request.nodes[1]
            text == node.innerText
            leafName == Trim(RemoveFirst(text, EmailA))
            best == Trim(StripSeparators(WalkResult(leafName, node.ancestors)))
        IN /\ text \in {EmailA, <<"a", " ">> \o EmailA} =>
                  /\ Len(attendanceMap) = 1
                  /\ attendanceMap[1].value =
                        RecordOf(IF best = <<>> THEN <<"a">> ELSE best, EmailA,
                                 before.now)
           /\ Len(node.ancestors) > 3 =>
                  attendanceMap =
                      ProcessNode(before.attendanceMap,
                                  [node EXCEPT !.ancestors = SubSeq(@, 1, 3)],
                                  before.now)

\* The address alone inside "a a@b.cc", "Bo: a@b.cc", "aBaB a@b.cc": the
\* first is adopted, the second replaces it and ends the walk.
C18_Witness ==
    /\ OneElementObserved
    /\ request.nodes[1].innerText = EmailA
    /\ request.nodes[1].ancestors =
          <<<<"a", " ">> \o EmailA, NameBo \o <<":", " ">> \o EmailA,
            <<"a", "B", "a", "B", " ">> \o EmailA>>
    /\ attendanceMap[1].value.name = NameBo

\* C19: a run of the script's top level in a tab that holds the state leaves
\* the records, the running flag, the meeting name and the start time as
\* they were; and a popup opened anew asks for the status only, which
\* changes nothing and reports the ledger as it is.
C19_ReinjectionKeepsLedger ==
    /\ request.action = "LOAD" => SameLedger
    /\ (/\ call.handler = "open" /\ call.result = "reply"
        /\ request.action = "GET_STATUS") =>
           /\ SameLedger
           /\ ResponseIsSnapshot
           /\ ui.count = Len(attendanceMap)

\* The popup's recovery injects the script into a tab whose session is
\* running, named and holds a record.
C19_Witness ==
    /\ request.action = "LOAD"
    /\ call.pc = "retry" /\ call.injected = 1
    /\ before.isRunning
    /\ before.meetingName = <<"M">>
    /\ before.startTimestamp # <<>>
    /\ Len(before.attendanceMap) = 1
    /\ attendanceMap = before.attendanceMap
    /\ isRunning

\* C20: a running ledger has its start time set, and so has a ledger that
\* holds a record: without a start time the ledger is idle and empty; so in
\* every reply canResume of the popup, sessionStarted || count > 0, is
\* sessionStarted.
C20_SessionImplied ==
    /\ isRunning => startTimestamp # <<>>
    /\ Len(attendanceMap) > 0 => startTimestamp # <<>>
    /\ startTimestamp = <<>> => ~isRunning /\ attendanceMap = <<>>
    /\ response.isRunning => response.sessionStarted
    /\ response.count > 0 => response.sessionStarted
    /\ CanResume(response) = response.sessionStarted

\* STOP of a session that holds two records: count > 0 in an idle ledger.
C20_Witness ==
    /\ request.action = "STOP"
    /\ before.isRunning /\ ~isRunning
    /\ Len(attendanceMap) = 2
    /\ startTimestamp = <<StartClock>>
    /\ response.count = 2
    /\ response.sessionStarted
    /\ CanResume(response)

====
